---- MODULE Spec2Model ----
(***************************************************************************)
(* Model of value_investing/fundamental_analysis_generator.py:             *)
(* InvestingAnalysis.fundamental_analysis (the per-ticker ratio            *)
(* computation) and InvestingAnalysis.dataset_generator (the loop over the *)
(* ticker list with its batch accumulator and periodic flush to            *)
(* results.csv / incomplete.csv).                                          *)
(*                                                                         *)
(* Numeric values are abstracted to presence: a cell of a pandas Series is *)
(* either a number (present) or NaN/None (absent).  Everything the loop    *)
(* decides on (KeyError on a missing line item, unbound locals, index      *)
(* alignment, dropna, the flush condition, the exceptions swallowed by the *)
(* loop's except clause) is kept.                                          *)
(***************************************************************************)
EXTENDS Integers, Sequences, FiniteSets, TLC

\* ---------------------------------------------------------------- bounds
\* `(i + 1) % 20 == 0` of dataset_generator.
FlushEvery == 20
\* Largest number of fiscal periods (statement columns) a provider returns.
MaxPeriods == 3
\* Ticker lists up to this length carry every combination of profiles.
MaxShort == 2
\* Longest ticker list.
MaxTickers == 45
\* The to_csv call (1 = first call of the run) that may raise; 0 = none does.
MaxFailWrite == 4

\* ------------------------------------------------------------ line items
NetIncome == "Net Income Common Stockholders"
SharesNumber == "Ordinary Shares Number"
Ebitda == "EBITDA"
Equity == "Common Stock Equity"
Assets == "Total Assets"
Liabilities == "Current Liabilities"
OperatingCF == "Operating Cash Flow"
DeprAmort == "Depreciation And Amortization"

BgItems == {SharesNumber, Equity, Assets, Liabilities}
EdoItems == {NetIncome, Ebitda}
CashflowItems == {OperatingCF, DeprAmort}
AllItems == BgItems \cup EdoItems \cup CashflowItems

\* ------------------------------------------------- sequences and indexes
Range(s) == {s[k] : k \in DOMAIN s}

Reverse(s) == [k \in 1..Len(s) |-> s[Len(s) + 1 - k]]

Max(S) == CHOOSE x \in S : \A y \in S : y <= x

RECURSIVE SetToAsc(_)
SetToAsc(S) == IF S = {} THEN <<>> ELSE SetToAsc(S \ {Max(S)}) \o <<Max(S)>>

\* pandas Index.union(other, sort=None): unchanged when the two are equal or
\* one is empty, otherwise the sorted union.
IndexUnion(a, b) ==
    IF a = b \/ Len(b) = 0 THEN a
    ELSE IF Len(a) = 0 THEN b
    ELSE SetToAsc(Range(a) \cup Range(b))

\* ------------------------------------------------------------ the provider
\* What the statement and price providers hold for one ticker.
\*   fetch   : FALSE when reading a statement raises (network, unknown symbol)
\*   n       : number of fiscal periods 1..n of every non-empty statement
\*   empty   : the statement that comes back entirely empty, or "none"
\*   missing : line items absent from the statements
\*   priceOK : FALSE when the price lookup raises for this ticker
\*   asc     : TRUE when the columns come oldest first (yfinance: newest first)
Statements == {"bg", "edo", "cashflow"}

Deviations(p) ==
    (IF p.fetch THEN 0 ELSE 1) + (IF p.empty = "none" THEN 0 ELSE 1)
    + Cardinality(p.missing) + (IF p.priceOK THEN 0 ELSE 1)

Profiles ==
    {p \in [fetch : BOOLEAN, n : 1..MaxPeriods, empty : Statements \cup {"none"},
            missing : {{}} \cup {{x} : x \in AllItems},
            priceOK : BOOLEAN, asc : BOOLEAN] :
        \/ Deviations(p) = 0
        \/ Deviations(p) = 1 /\ p.n = MaxPeriods /\ ~p.asc}

Complete(n) ==
    [fetch |-> TRUE, n |-> n, empty |-> "none", missing |-> {},
     priceOK |-> TRUE, asc |-> FALSE]

\* The columns (period-end dates, as period numbers) of one statement, in
\* the provider's order.
Columns(p, stmt) ==
    IF p.empty = stmt THEN <<>>
    ELSE IF p.asc THEN SetToAsc(1..p.n) ELSE Reverse(SetToAsc(1..p.n))

\* A statement used with all its columns.
TrimNothing(cols) == cols

\* df.iloc[:, :-1]: every column but the last.
Trim(cols) == IF Len(cols) = 0 THEN cols ELSE SubSeq(cols, 1, Len(cols) - 1)

\* ------------------------------------------------------------ pandas Series
\* A Series is its index (a sequence of periods) and the set of periods whose
\* cell holds a number; the Python value None has none = TRUE.
NoneValue == [none |-> TRUE, idx |-> <<>>, ok |-> {}]

Series(idx, ok) == [none |-> FALSE, idx |-> idx, ok |-> ok]

\* df.loc[item] of a statement whose line item exists: one cell per column.
Row(cols) == Series(cols, Range(cols))

\* a / b, a + b, a - b: the indexes are aligned (outer join); a cell is a
\* number only where both operands have one (x / 0 is inf, still a number).
Arith(a, b) == Series(IndexUnion(a.idx, b.idx), a.ok \cap b.ok)

\* s.sort_index(inplace=True, ascending=False)
SortIndex(s) == Series(Reverse(SetToAsc(Range(s.idx))), s.ok)

\* ------------------------------------------------------ fundamental_analysis
Raised == [status |-> "raise", eps |-> NoneValue, per |-> NoneValue,
           ebitda |-> NoneValue, pbv |-> NoneValue, solvency |-> NoneValue,
           roe |-> NoneValue, fcf |-> NoneValue, prices |-> NoneValue,
           shares |-> NoneValue, incomplete |-> FALSE]

ReturnedNone == [Raised EXCEPT !.status = "none"]

\* bg.size == 0 or edo.size == 0 or cashflow.size == 0
AnyStatementEmpty(p) ==
    LET size(cols, items) == Len(cols) * Cardinality(items \ p.missing)
    IN  \/ size(Trim(Columns(p, "bg")), BgItems) = 0
        \/ size(Trim(Columns(p, "edo")), EdoItems) = 0
        \/ size(Columns(p, "cashflow"), CashflowItems) = 0

\* The return statement reads the local `prices`, which is bound only when
\* the PER block got as far as assigning it: otherwise UnboundLocalError.
ReturnReadsPrices(pricesBound) == pricesBound

FundamentalAnalysis(p) ==
    IF ~p.fetch THEN Raised
    ELSE IF AnyStatementEmpty(p) THEN ReturnedNone
    ELSE
    LET bg == Trim(Columns(p, "bg"))
        edo == Trim(Columns(p, "edo"))
        cashflow == Columns(p, "cashflow")
        has(item) == item \notin p.missing
        \* EPS block: income, then n_shares, are bound in this order
        incomeBound == has(NetIncome)
        nSharesBound == incomeBound /\ has(SharesNumber)
        epsOK == nSharesBound
        eps == IF epsOK THEN SortIndex(Arith(Row(edo), Row(bg))) ELSE NoneValue
        \* shares block
        sharesOK == has(SharesNumber)
        shares == IF sharesOK THEN Row(bg) ELSE NoneValue
        \* PER block: eps.index raises on None; the price lookup may raise
        pricesBound == epsOK /\ p.priceOK
        prices == IF pricesBound THEN SortIndex(Row(eps.idx)) ELSE NoneValue
        perOK == pricesBound
        per == IF perOK THEN SortIndex(Arith(prices, eps)) ELSE NoneValue
        \* EBITDA block
        ebitdaOK == has(Ebitda)
        ebitda == IF ebitdaOK THEN SortIndex(Row(edo)) ELSE NoneValue
        \* PBV block: needs the locals n_shares and prices
        pbvOK == has(Equity) /\ nSharesBound /\ pricesBound
        pbv == IF pbvOK
               THEN SortIndex(Arith(prices, Arith(Row(bg), Row(bg))))
               ELSE NoneValue
        \* solvency block
        solvencyOK == has(Assets) /\ has(Liabilities)
        solvency == IF solvencyOK THEN SortIndex(Arith(Row(bg), Row(bg)))
                    ELSE NoneValue
        \* ROE block: needs the local income
        roeOK == has(Equity) /\ incomeBound
        roe == IF roeOK THEN SortIndex(Arith(Row(edo), Row(bg))) ELSE NoneValue
        \* FCF block: cashflow keeps all its columns, bg lost its last one
        fcfOK == /\ has(OperatingCF) /\ has(DeprAmort)
                 /\ has(Assets) /\ has(Liabilities)
        fcf == IF fcfOK
               THEN SortIndex(Arith(Arith(Row(cashflow), Row(cashflow)),
                                    Arith(Row(bg), Row(bg))))
               ELSE NoneValue
        incomplete == ~(/\ epsOK /\ sharesOK /\ perOK /\ ebitdaOK /\ pbvOK
                        /\ solvencyOK /\ roeOK /\ fcfOK)
    IN  IF ~ReturnReadsPrices(pricesBound) THEN Raised
        ELSE [status |-> "dict", eps |-> eps, per |-> per, ebitda |-> ebitda,
              pbv |-> pbv, solvency |-> solvency, roe |-> roe, fcf |-> fcf,
              prices |-> prices, shares |-> shares, incomplete |-> incomplete]

\* ------------------------------------------------- the per-ticker DataFrame
Columns9(res) ==
    <<res.eps, res.per, res.ebitda, res.pbv, res.solvency, res.roe, res.fcf,
      res.prices, res.shares>>

\* pd.DataFrame(dict of Series and scalars): the index is the union of the
\* Series' indexes, taken in column order.
RECURSIVE UnionIndexes(_, _)
UnionIndexes(cols, k) ==
    IF k = 0 THEN <<>>
    ELSE IF cols[k].none THEN UnionIndexes(cols, k - 1)
    ELSE LET before == UnionIndexes(cols, k - 1)
         IN  IF \A j \in 1..(k - 1) : cols[j].none THEN cols[k].idx
             ELSE IndexUnion(before, cols[k].idx)

\* result['prices'].pct_change(): with the legacy default fill_method='pad'
\* a NaN price is first replaced by the last price before it.
PctChange(index, ok, pad) ==
    LET filled(k) == IF pad THEN \E j \in 1..k : index[j] \in ok
                     ELSE index[k] \in ok
    IN  {index[k] : k \in {m \in 2..Len(index) : filled(m) /\ filled(m - 1)}}

\* Lines 161-166: the frame of one analysed ticker, rows in index order, the
\* rows whose value columns are all NaN dropped.
Frame(res, t, pad) ==
    LET index == UnionIndexes(Columns9(res), 9)
        ret == PctChange(index, res.prices.ok, pad)
        row(d) == [ticker |-> t, date |-> d,
                   eps |-> d \in res.eps.ok, per |-> d \in res.per.ok,
                   ebitda |-> d \in res.ebitda.ok, pbv |-> d \in res.pbv.ok,
                   solvency |-> d \in res.solvency.ok, roe |-> d \in res.roe.ok,
                   fcf |-> d \in res.fcf.ok, prices |-> d \in res.prices.ok,
                   shares |-> d \in res.shares.ok, returns |-> d \in ret,
                   incomplete |-> res.incomplete]
        allNaN(r) == ~(\/ r.eps \/ r.per \/ r.ebitda \/ r.pbv \/ r.solvency
                       \/ r.roe \/ r.fcf \/ r.prices \/ r.shares \/ r.returns)
    IN  SelectSeq([k \in 1..Len(index) |-> row(index[k])], LAMBDA r : ~allNaN(r))

\* --------------------------------------------------- DataFrames and files
EmptyFrame == [cols |-> FALSE, rows |-> <<>>]

\* pd.concat([a, b])
Concat(a, b) == [cols |-> a.cols \/ b.cols, rows |-> a.rows \o b.rows]

NoRecord == [ticker |-> 0, date |-> 0, eps |-> FALSE, per |-> FALSE,
             ebitda |-> FALSE, pbv |-> FALSE, solvency |-> FALSE, roe |-> FALSE,
             fcf |-> FALSE, prices |-> FALSE, shares |-> FALSE,
             returns |-> FALSE, incomplete |-> FALSE]

Line(kind, rec) == [kind |-> kind, rec |-> rec]

\* What a destination holds before the run: the previous run's output.
StaleFile == <<Line("stale", NoRecord)>>

\* df.to_csv(path, index=False): header defaults to True, so the column names
\* are written whenever the frame has columns; a frame without columns gives
\* one blank line.
ToCsv(df) ==
    IF ~df.cols THEN <<Line("blank", NoRecord)>>
    ELSE <<Line("header", NoRecord)>>
         \o [k \in 1..Len(df.rows) |-> Line("row", df.rows[k])]

\* pd.DataFrame({'ticker': incomplete_list}).to_csv(path, index=False, mode='a')
TickersToCsv(list) ==
    <<Line("header", NoRecord)>>
    \o [k \in 1..Len(list) |-> Line("row", [NoRecord EXCEPT !.ticker = list[k]])]

\* ------------------------------------------------------------------ state
VARIABLES
    tickers,          \* the argument of dataset_generator (distinct symbols)
    data,             \* what the providers hold for each ticker
    padFill,          \* pct_change pads NaN prices (pandas before 3.0)
    failWrite,        \* the to_csv call that raises OSError, 0 for none
    pc,               \* "start", "loop", "done" (returned), "aborted" (raised)
    i,                \* the loop index: tickers[i + 1] is next
    result,           \* what fundamental_analysis returned for the last ticker
    results,          \* the frame dataset_generator returns
    batch,            \* the batch accumulator
    incomplete_list,  \* the pending incomplete tickers
    resultsFile,      \* value_investing/results.csv
    incompleteFile,   \* value_investing/incomplete.csv
    writes,           \* to_csv calls made so far
    attempted,        \* observer: the tickers the loop body was entered for
    outcome,          \* observer: how the last loop iteration ended
    flushedAt         \* observer: 1-based positions after which a flush ran

vars == <<tickers, data, padFill, failWrite, pc, i, result, results, batch,
          incomplete_list, resultsFile, incompleteFile, writes, attempted,
          outcome, flushedAt>>

config == <<tickers, data, padFill, failWrite>>

\* Lengths of the long ticker lists: around every flush boundary, and the
\* longest.
LongLens ==
    {m \in (MaxShort + 1)..MaxTickers :
        m % FlushEvery \in {0, 1} \/ m = MaxTickers}

\* The positions of a long list where the one deviating ticker may stand: the
\* first, each flush boundary and the position after it, and the last.
LongPositions(n) ==
    {s \in 1..n : s % FlushEvery \in {0, 1} \/ s = n}

\* The profiles of the lists of two and more tickers: a complete ticker, one
\* whose statements cannot be read, one with an empty balance sheet, one
\* without a shares line, one without an EBITDA line, one without prices.
CoreProfiles ==
    {p \in Profiles :
        /\ p.n = MaxPeriods /\ ~p.asc
        /\ p.empty \in {"none", "bg"}
        /\ p.missing \in {{}, {SharesNumber}, {Ebitda}}}

Init ==
    /\ \/ \E n \in 0..MaxShort :
            /\ tickers = [k \in 1..n |-> k]
            /\ data \in [1..n -> IF n <= 1 THEN Profiles ELSE CoreProfiles]
            /\ padFill \in IF n <= 1 THEN BOOLEAN ELSE {TRUE}
       \/ \E n \in LongLens : \E s \in LongPositions(n) : \E sp \in CoreProfiles :
            /\ tickers = [k \in 1..n |-> k]
            /\ data = [k \in 1..n |-> IF k = s THEN sp ELSE Complete(MaxPeriods)]
            /\ padFill = TRUE
    /\ failWrite \in 0..MaxFailWrite
    /\ pc = "start"
    /\ i = 0
    /\ result = ReturnedNone
    /\ results = EmptyFrame
    /\ batch = EmptyFrame
    /\ incomplete_list = <<>>
    /\ resultsFile = StaleFile
    /\ incompleteFile = StaleFile
    /\ writes = 0
    /\ attempted = <<>>
    /\ outcome = "none"
    /\ flushedAt = <<>>

\* ------------------------------------------------------ dataset_generator
\* Lines 146-156: both destinations are overwritten with an empty frame.
ResetOutputs ==
    /\ pc = "start"
    /\ failWrite \notin {1, 2}
    /\ resultsFile' = ToCsv(EmptyFrame)
    /\ incompleteFile' = ToCsv(EmptyFrame)
    /\ writes' = 2
    /\ results' = EmptyFrame
    /\ batch' = EmptyFrame
    /\ incomplete_list' = <<>>
    /\ pc' = "loop"
    /\ UNCHANGED <<config, i, result, attempted, outcome, flushedAt>>

\* The same lines when a to_csv call raises: nothing catches it here.
ResetFails ==
    /\ pc = "start"
    /\ failWrite \in {1, 2}
    /\ resultsFile' = IF failWrite = 1 THEN resultsFile ELSE ToCsv(EmptyFrame)
    /\ writes' = failWrite
    /\ pc' = "aborted"
    /\ UNCHANGED <<config, i, result, results, batch, incomplete_list,
                   incompleteFile, attempted, outcome, flushedAt>>

InLoop == pc = "loop" /\ i < Len(tickers)

Current == tickers[i + 1]

Analysis == FundamentalAnalysis(data[Current])

\* pd.DataFrame(None) has no 'prices' column: result['prices'] raises KeyError,
\* as an exception out of fundamental_analysis does.
Skips == Analysis.status # "dict"

CurrentFrame == [cols |-> TRUE, rows |-> Frame(Analysis, Current, padFill)]

\* result['incomplete'].sum() > 0
Flagged == \E k \in 1..Len(CurrentFrame.rows) : CurrentFrame.rows[k].incomplete

\* (i + 1) % 20 == 0 or (i + 1) == len(tickers)
IsFlushPosition == (i + 1) % FlushEvery = 0 \/ (i + 1) = Len(tickers)

\* Lines 168-175, up to the flush test.
ListAfter == IF Flagged THEN Append(incomplete_list, Current) ELSE incomplete_list

ResultsAfter == Concat(Concat(results, CurrentFrame), CurrentFrame)

BatchAfter == Concat(batch, CurrentFrame)

\* A handler that ends the loop (break) instead of going on.
SkipTickerBreaks ==
    /\ InLoop
    /\ Skips
    /\ result' = Analysis
    /\ attempted' = Append(attempted, Current)
    /\ outcome' = "skipped"
    /\ i' = i + 1
    /\ pc' = "done"
    /\ UNCHANGED <<config, results, batch, incomplete_list, resultsFile,
                   incompleteFile, writes, flushedAt>>

\* A handler that records the failed ticker as incomplete.
SkipTickerKeepsFlag ==
    /\ InLoop
    /\ Skips
    /\ result' = Analysis
    /\ attempted' = Append(attempted, Current)
    /\ outcome' = "skipped"
    /\ i' = i + 1
    /\ incomplete_list' = Append(incomplete_list, Current)
    /\ UNCHANGED <<config, pc, results, batch, resultsFile,
                   incompleteFile, writes, flushedAt>>

\* The except clause of the loop: the iteration ends, the loop goes on.
SkipTicker ==
    /\ InLoop
    /\ Skips
    /\ result' = Analysis
    /\ attempted' = Append(attempted, Current)
    /\ outcome' = "skipped"
    /\ i' = i + 1
    /\ UNCHANGED <<config, pc, results, batch, incomplete_list, resultsFile,
                   incompleteFile, writes, flushedAt>>

\* An analysed ticker at a position that does not flush.
AccumulateTicker ==
    /\ InLoop
    /\ ~Skips
    /\ ~IsFlushPosition
    /\ result' = Analysis
    /\ attempted' = Append(attempted, Current)
    /\ outcome' = "accumulated"
    /\ incomplete_list' = ListAfter
    /\ results' = ResultsAfter
    /\ batch' = BatchAfter
    /\ i' = i + 1
    /\ UNCHANGED <<config, pc, resultsFile, incompleteFile, writes, flushedAt>>

\* An analysed ticker at a flush position, both to_csv calls succeeding.
FlushTicker ==
    /\ InLoop
    /\ ~Skips
    /\ IsFlushPosition
    /\ failWrite # writes + 1
    /\ ListAfter = <<>> \/ failWrite # writes + 2
    /\ result' = Analysis
    /\ attempted' = Append(attempted, Current)
    /\ outcome' = "flushed"
    /\ results' = ResultsAfter
    /\ resultsFile' = resultsFile \o ToCsv(BatchAfter)
    /\ batch' = EmptyFrame
    /\ IF ListAfter # <<>>
       THEN /\ incompleteFile' = incompleteFile \o TickersToCsv(ListAfter)
            /\ writes' = writes + 2
       ELSE /\ incompleteFile' = incompleteFile
            /\ writes' = writes + 1
    /\ incomplete_list' = <<>>
    /\ flushedAt' = Append(flushedAt, i + 1)
    /\ i' = i + 1
    /\ UNCHANGED <<config, pc>>

\* A flush whose storage failure leaves the function instead of being caught.
FlushFailsAborts ==
    /\ InLoop
    /\ ~Skips
    /\ IsFlushPosition
    /\ result' = Analysis
    /\ attempted' = Append(attempted, Current)
    /\ outcome' = "flush_failed"
    /\ results' = ResultsAfter
    /\ incomplete_list' = ListAfter
    /\ \/ /\ failWrite = writes + 1
          /\ batch' = BatchAfter
          /\ writes' = writes + 1
          /\ UNCHANGED resultsFile
       \/ /\ ListAfter # <<>>
          /\ failWrite = writes + 2
          /\ resultsFile' = resultsFile \o ToCsv(BatchAfter)
          /\ batch' = EmptyFrame
          /\ writes' = writes + 2
    /\ pc' = "aborted"
    /\ UNCHANGED <<config, i, incompleteFile, flushedAt>>

\* An analysed ticker at a flush position, a to_csv call raising: the loop's
\* except clause catches it and the loop goes on.  A failed call is taken to
\* have written nothing.
FlushFails ==
    /\ InLoop
    /\ ~Skips
    /\ IsFlushPosition
    /\ result' = Analysis
    /\ attempted' = Append(attempted, Current)
    /\ outcome' = "flush_failed"
    /\ results' = ResultsAfter
    /\ incomplete_list' = ListAfter
    /\ \/ /\ failWrite = writes + 1
          /\ batch' = BatchAfter
          /\ writes' = writes + 1
          /\ UNCHANGED resultsFile
       \/ /\ ListAfter # <<>>
          /\ failWrite = writes + 2
          /\ resultsFile' = resultsFile \o ToCsv(BatchAfter)
          /\ batch' = EmptyFrame
          /\ writes' = writes + 2
    /\ i' = i + 1
    /\ UNCHANGED <<config, pc, incompleteFile, flushedAt>>

\* Line 196: return results.
Return ==
    /\ pc = "loop"
    /\ i = Len(tickers)
    /\ pc' = "done"
    /\ UNCHANGED <<config, i, result, results, batch, incomplete_list,
                   resultsFile, incompleteFile, writes, attempted, outcome,
                   flushedAt>>

Next ==
    \/ ResetOutputs
    \/ ResetFails
    \/ SkipTicker
    \/ AccumulateTicker
    \/ FlushTicker
    \/ FlushFails
    \/ Return

Spec == Init /\ [][Next]_vars

\* ------------------------------------------------------ derived quantities
LastTicker == attempted[Len(attempted)]

LastProfile == data[LastTicker]

\* Some to_csv call of the run has raised.
WriteFailed == failWrite # 0 /\ writes >= failWrite

\* The statements of p were read and none of them is empty.
StatementsNonEmpty(p) == p.fetch /\ ~AnyStatementEmpty(p)

\* Number of positions of the sequence s that satisfy Test.
Count(s, Test(_)) == Cardinality({k \in DOMAIN s : Test(s[k])})

IsHeader(line) == line.kind = "header"

\* The tickers named by the data rows of a destination.
RowTickers(file) == {file[k].rec.ticker : k \in {m \in DOMAIN file : file[m].kind = "row"}}

HasAllRatios(r) ==
    r.eps /\ r.per /\ r.ebitda /\ r.pbv /\ r.solvency /\ r.roe /\ r.fcf

\* The positions at which the flush condition of the loop is true.
FlushPositions == {k \in 1..Len(tickers) : k % FlushEvery = 0 \/ k = Len(tickers)}

\* The records of the first k tickers, each analysed ticker's frame once.
RECURSIVE ProducedRows(_)
ProducedRows(k) ==
    IF k = 0 THEN <<>>
    ELSE LET r == FundamentalAnalysis(data[tickers[k]])
         IN  ProducedRows(k - 1)
             \o (IF r.status = "dict" THEN Frame(r, tickers[k], padFill) ELSE <<>>)

\* ---------------------------------------------------------------- claims

\* C1: a flush happens after every ticker whose 1-based position is a
\* multiple of 20 and after the last ticker, and nowhere else, whatever the
\* per-ticker outcomes; so when the run ends both accumulators are empty.
C1_FlushAtEveryBoundary ==
    (pc = "done" /\ failWrite = 0) =>
        /\ flushedAt = SetToAsc(FlushPositions)
        /\ batch = EmptyFrame
        /\ incomplete_list = <<>>

\* C2: for a ticker whose three statements are non-empty, fundamental_analysis
\* always returns a result; a failed ratio only sets incomplete; without an
\* 'Ordinary Shares Number' line EPS, PER and PBV are unavailable, EBITDA and
\* solvency are computed, and incomplete is true.
C2_RatiosIndependent ==
    (attempted # <<>> /\ StatementsNonEmpty(LastProfile)) =>
        /\ result.status = "dict"
        /\ result.incomplete <=> (LastProfile.missing # {} \/ ~LastProfile.priceOK)
        /\ SharesNumber \in LastProfile.missing =>
              /\ result.eps.none /\ result.per.none /\ result.pbv.none
              /\ ~result.ebitda.none /\ ~result.solvency.none
              /\ result.incomplete

\* C3: a ticker one of whose statements is entirely empty adds no record, is
\* named in the incomplete-tickers output by the end of the run, and the run
\* goes on to its end.
C3_EmptyStatementCountedIncomplete ==
    (pc = "done" /\ failWrite = 0) =>
        \A k \in 1..Len(tickers) :
            (data[tickers[k]].fetch /\ AnyStatementEmpty(data[tickers[k]])) =>
                /\ tickers[k] \notin {results.rows[m].ticker : m \in DOMAIN results.rows}
                /\ tickers[k] \in RowTickers(incompleteFile)

\* C4: once the destinations are reset the run terminates, having entered the
\* loop body exactly once for each ticker, in list order, whatever fails:
\* every step of the loop enters the body for exactly the next ticker of the
\* list and stays in the loop (no failure ends or repeats it), and the loop
\* is left only by the return after the last ticker.  The loop index grows by
\* one at every step and is bounded by the length of the list.
C4_EveryTickerAttemptedOnce ==
    /\ [](pc \in {"loop", "done"} => attempted = SubSeq(tickers, 1, i))
    /\ [](pc = "done" => attempted = tickers)
    /\ [][pc = "loop" =>
            \/ /\ i < Len(tickers)
               /\ i' = i + 1
               /\ attempted' = Append(attempted, tickers[i + 1])
               /\ pc' = "loop"
            \/ /\ i = Len(tickers)
               /\ pc' = "done"
               /\ attempted' = attempted]_vars

C4_Witness ==
    /\ pc = "done"
    /\ attempted = tickers
    /\ Len(tickers) >= 2
    /\ FundamentalAnalysis(data[tickers[1]]).status = "raise"

\* C5: the returned frame is the concatenation, in processing order, of the
\* records of the analysed tickers, each record once.
C5_ReturnedOnceEach ==
    pc = "done" => results.rows = ProducedRows(Len(tickers))

\* C6: over a whole run the results destination receives its header exactly
\* once, however many flushes there are.
C6_HeaderOnce ==
    (pc = "done" /\ failWrite = 0 /\ flushedAt # <<>>) =>
        Count(resultsFile, IsHeader) = 1

\* C7: at the end of a run the incomplete-tickers output names exactly the
\* tickers for which at least one ratio failed to compute, each once.
C7_IncompleteOutputExact ==
    (pc = "done" /\ failWrite = 0) =>
        \A k \in 1..Len(tickers) :
            LET p == data[tickers[k]]
                named(line) == line.kind = "row" /\ line.rec.ticker = tickers[k]
            IN  StatementsNonEmpty(p) =>
                    Count(incompleteFile, named)
                        = (IF p.missing # {} \/ ~p.priceOK THEN 1 ELSE 0)

\* C8 as stated: a ticker with complete statements over N periods yields N
\* records, each with all ratios present and incomplete = false.
C8_OneRecordPerPeriod ==
    (attempted # <<>> /\ Deviations(LastProfile) = 0) =>
        /\ result.status = "dict"
        /\ LET rows == Frame(result, LastTicker, padFill)
           IN  /\ Len(rows) = LastProfile.n
               /\ \A k \in DOMAIN rows : HasAllRatios(rows[k]) /\ ~rows[k].incomplete

\* C8 amended: such a ticker yields exactly N - 1 records that carry the
\* ratios, one for each period but the one in the last column of the
\* provider's statements, each with all ratios present and incomplete =
\* false; with N = 1 the ticker is skipped and yields none.
C8_OneRecordPerTrimmedPeriod ==
    (attempted # <<>> /\ Deviations(LastProfile) = 0) =>
        IF LastProfile.n = 1 THEN outcome = "skipped"
        ELSE /\ outcome # "skipped"
             /\ LET rows == Frame(result, LastTicker, padFill)
                    full == SelectSeq(rows, HasAllRatios)
                    mine(r) == r.ticker = LastTicker
                IN  /\ Len(full) = LastProfile.n - 1
                    /\ {full[k].date : k \in DOMAIN full}
                           = Range(Columns(LastProfile, "bg"))
                             \ {Columns(LastProfile, "bg")[LastProfile.n]}
                    /\ \A k \in DOMAIN rows :
                          /\ ~rows[k].incomplete
                          /\ HasAllRatios(rows[k]) \/ ~rows[k].eps
                    /\ outcome = "accumulated" =>
                          SelectSeq(batch.rows, mine) = rows

C8_Witness ==
    /\ attempted # <<>>
    /\ LastProfile = Complete(3)
    /\ outcome = "accumulated"
    /\ Len(SelectSeq(batch.rows, LAMBDA r : r.ticker = LastTicker)) = 2

\* C9 as stated: a storage failure on any write, the reset or a flush, aborts
\* the run.
C9_AnyWriteFailureAborts ==
    WriteFailed => pc = "aborted"

\* C9 amended: a storage failure on the reset at run start aborts the run
\* before any ticker is processed; a storage failure on a flush is caught by
\* the loop like any other error and the run goes on; nothing else aborts.
C9_OnlyResetFailureAborts ==
    /\ WriteFailed => (pc = "aborted" <=> failWrite \in {1, 2})
    /\ pc = "aborted" => (WriteFailed /\ attempted = <<>>)

C9_Witness ==
    /\ WriteFailed
    /\ failWrite > 2
    /\ outcome = "accumulated"
    /\ pc = "loop"

====
